---- MODULE Spec2Model ----
(***************************************************************************)
(* cache-thing: a build cache keyed by git history.                        *)
(*                                                                         *)
(* The module models                                                       *)
(*   - the key resolution of src/src/main.rs (current_key,                 *)
(*     possible_restore_keys, main_commit, format_cache_key_str) over an   *)
(*     explicit commit graph,                                              *)
(*   - the folder backend of src/src/folder_backend.rs (exists, reader,    *)
(*     writer) with the advisory file locks it takes,                      *)
(*   - push and pull invocations as concurrent processes sharing one       *)
(*     storage directory and one working tree.                             *)
(*                                                                         *)
(* Specifications:                                                         *)
(*   Spec      concurrent push and pull on one storage directory           *)
(*   SpecKeys  key resolution over every generated repository              *)
(*   SpecTrip  a push and pulls of its key over files and directories      *)
(*   SpecFair  invocations contending for one key, scheduled fairly        *)
(*   SpecRefs  Spec without a repository or with other trunk references    *)
(*                                                                         *)
(* Strings are sequences of tokens; the tokens form a prefix code ("-",    *)
(* single letters, and one token per commit hash), so two token sequences  *)
(* are equal exactly when the strings they stand for are equal.            *)
(* Option<T> is a sequence of length 0 (None) or 1 (Some).                 *)
(***************************************************************************)
EXTENDS Integers, Sequences, FiniteSets, TLC

VARIABLES
    repo,       \* Option of the repository found from the working directory
    githubRef,  \* Option of the GITHUB_REF environment variable
    args,       \* per invocation: its command line
    pc,         \* per invocation: the statement it is at
    key,        \* per invocation: Option of the key it resolved or selected
    keys,       \* per invocation: possible_keys of pull
    idx,        \* per invocation: position in possible_keys / args.files
    probes,     \* per invocation: the exists() calls made, with their answers
    handle,     \* per invocation: the open file and the lock held on it
    opened,     \* per invocation: the files it has opened, in order
    data,       \* per invocation: the bytes a reader has read
    entries,    \* per invocation: file_etries of pull, path -> extracted
    exit,       \* per invocation: Option of [code, err]
    store,      \* the storage directory: file name -> content
    closed,     \* file name -> the contents writers left when they closed it
    disk,       \* the working tree: path -> directory or file with its body
    acquired,   \* history: the exclusive locks granted, in order
    packed      \* history: path -> the tree push read beneath it

vars == <<repo, githubRef, args, pc, key, keys, idx, probes, handle, opened,
          data, entries, exit, store, closed, disk, acquired, packed>>

----------------------------------------------------------------------------
(* Bounds of the model                                                     *)

\* longest trunk line of a generated repository
MaxMain == 12
\* most commits on the feature branch of a generated repository
MaxFeat == 11
\* concurrent invocations sharing the storage directory
NumProcs == 2

\* the cap on the ancestry walk
WalkLimit == 10

----------------------------------------------------------------------------
(* Option and sequence helpers                                             *)

None == <<>>
Some(x) == <<x>>
IsSome(o) == o /= <<>>
Unwrap(o) == o[1]

Range(s) == {s[i] : i \in DOMAIN s}

----------------------------------------------------------------------------
(* Commits and the repository                                              *)

\* ObjectId::to_string(): one token per commit, none containing "-"
HexTable ==
    << "c01", "c02", "c03", "c04", "c05", "c06", "c07", "c08", "c09", "c10",
       "c11", "c12", "c13", "c14", "c15", "c16", "c17", "c18", "c19", "c20",
       "c21", "c22", "c23", "c24", "c25", "c26", "c27", "c28", "c29", "c30" >>

to_string(commit) == <<HexTable[commit]>>

(* A repository with a trunk line 1..m, a feature branch of k commits       *)
(* m+1..m+k forking at commit f of the trunk line, and, when mg is not      *)
(* "none", a merge commit m+k+1 on top.  Commit times are distinct; a       *)
(* commit is newer than its parents, except that with late = TRUE the       *)
(* trunk tip m was committed after the feature branch (the trunk moved on   *)
(* after the branch was cut).                                               *)
FeatureTip(m, f, k) == IF k = 0 THEN f ELSE m + k

MergeParents(m, f, k, mg) ==
    CASE mg = "feature_trunk" -> <<FeatureTip(m, f, k), m>>
      [] mg = "trunk_feature" -> <<m, FeatureTip(m, f, k)>>
      [] mg = "trunk_trunk"   -> <<m, m>>
      [] mg = "octopus"       -> <<m, FeatureTip(m, f, k), 1>>

MkRepo(m, f, k, mg, late, refMain, refMaster) ==
    LET n == IF mg = "none" THEN m + k ELSE m + k + 1
    IN  [ parents |->
            [c \in 1..n |->
                IF mg /= "none" /\ c = n THEN MergeParents(m, f, k, mg)
                ELSE IF c = 1 THEN <<>>
                ELSE IF c = m + 1 THEN <<f>>
                ELSE <<c - 1>>],
          time |->
            [c \in 1..n |->
                IF late /\ c = m THEN 2 * (m + k) + 1 ELSE 2 * c],
          head |-> IF mg = "none" THEN FeatureTip(m, f, k) ELSE n,
          origin_main |-> refMain,
          origin_master |-> refMaster ]

MergeKinds == {"none", "feature_trunk", "trunk_feature", "trunk_trunk", "octopus"}

\* the references of a repository whose trunk line ends at m
RefChoice(m, i) ==
    CASE i = 1 -> <<Some(m), None>>
      [] i = 2 -> <<None, Some(m)>>
      [] i = 3 -> <<Some(m), Some(1)>>
      [] i = 4 -> <<Some(1), Some(m)>>
      [] i = 5 -> <<None, None>>

\* long histories with the trunk on origin/main
LongRepos ==
    { MkRepo(q[1], q[2], q[3], q[4], q[5], Some(q[1]), None) :
        q \in { x \in (1..MaxMain) \X (1..MaxMain) \X (0..MaxFeat)
                      \X {"none", "feature_trunk"} \X BOOLEAN :
                x[2] <= x[1] /\ x[2] >= x[1] - 1 } }

\* short histories of every shape, with every choice of references
ShortRepos ==
    { MkRepo(q[1], q[2], q[3], q[4], q[5],
             RefChoice(q[1], q[6])[1], RefChoice(q[1], q[6])[2]) :
        q \in { x \in (1..2) \X (1..2) \X (0..2) \X MergeKinds \X BOOLEAN
                      \X (1..5) :
                x[2] <= x[1] } }

\* the same histories with every commit made in the same second (commit
\* times are what the committer's clock said: they need not grow from
\* parent to child)
SameSecond(r) == [r EXCEPT !.time = [c \in DOMAIN r.time |-> r.time[1]]]

TiedRepos == { SameSecond(r) : r \in ShortRepos }

\* the histories the storage model runs on
StoreRepos ==
    { MkRepo(1, 1, 1, "none", FALSE, Some(1), None),
      MkRepo(2, 2, 0, "none", FALSE, Some(2), None) }

----------------------------------------------------------------------------
(* Keys                                                                    *)

\* the suffix appended without its separator
format_cache_key_str_joined(prefix, k, suffix) ==
    IF IsSome(suffix)
    THEN prefix \o <<"-">> \o k \o Unwrap(suffix)
    ELSE prefix \o <<"-">> \o k

\* format!("{}-{}-{}", prefix, key, suffix) / format!("{}-{}", prefix, key)
format_cache_key_str(prefix, k, suffix) ==
    IF IsSome(suffix)
    THEN prefix \o <<"-">> \o k \o <<"-">> \o Unwrap(suffix)
    ELSE prefix \o <<"-">> \o k

format_cache_key(prefix, commit, suffix) ==
    format_cache_key_str(prefix, to_string(commit), suffix)

\* GITHUB_REF values are paths, one token per component
Contains(s, t) ==
    \E i \in 0..(Len(s) - Len(t)) : \A j \in 1..Len(t) : s[i + j] = t[j]

in_merge_request_ci(env) ==
    IF IsSome(env) /\ Contains(Unwrap(env), <<"refs", "pull">>)
    THEN TRUE
    ELSE FALSE

Ok(v) == [ok |-> TRUE, val |-> v]
Err(e) == [ok |-> FALSE, err |-> e]

\* origin/master looked up before origin/main
main_commit_master_first(r) ==
    IF IsSome(r.origin_master) THEN Ok(Unwrap(r.origin_master))
    ELSE IF IsSome(r.origin_main) THEN Ok(Unwrap(r.origin_main))
    ELSE Err("TrunkNotFound")

\* origin/main, else origin/master, else an error
main_commit(r) ==
    IF IsSome(r.origin_main) THEN Ok(Unwrap(r.origin_main))
    ELSE IF IsSome(r.origin_master) THEN Ok(Unwrap(r.origin_master))
    ELSE Err("TrunkNotFound")

----------------------------------------------------------------------------
(* The ancestry walk (gix rev_walk as main.rs configures it)                *)

\* parents of c not seen yet, in parent order, each once
RECURSIVE FreshParents(_, _, _)
FreshParents(ps, seen, acc) ==
    IF ps = <<>> THEN acc
    ELSE IF Head(ps) \in seen \/ Head(ps) \in Range(acc)
         THEN FreshParents(Tail(ps), seen, acc)
         ELSE FreshParents(Tail(ps), seen, Append(acc, Head(ps)))

\* head.ancestors().all(): breadth first from the tip, no boundary
RECURSIVE BreadthFirst(_, _, _, _, _)
BreadthFirst(r, queue, seen, out, limit) ==
    IF queue = <<>> \/ Len(out) >= limit THEN out
    ELSE LET c == Head(queue)
             fresh == FreshParents(r.parents[c], seen, <<>>)
         IN  BreadthFirst(r, Tail(queue) \o fresh, seen \cup Range(fresh),
                          Append(out, c), limit)

\* head.ancestors().with_boundary([b]).all(): newest commit first, commits
\* older than the boundary cut off, the boundary neither yielded nor crossed
RECURSIVE ByCommitTimeCutoff(_, _, _, _, _, _)
ByCommitTimeCutoff(r, b, queue, seen, out, limit) ==
    IF queue = {} \/ Len(out) >= limit THEN out
    ELSE LET c == CHOOSE x \in queue : \A y \in queue : r.time[y] <= r.time[x]
             fresh == FreshParents(r.parents[c], seen, <<>>)
             kept == { p \in Range(fresh) :
                         p /= b /\ r.time[p] >= r.time[b] }
         IN  ByCommitTimeCutoff(r, b, (queue \ {c}) \cup kept,
                                seen \cup Range(fresh), Append(out, c), limit)

\* parent_commits_list without the take(10)
parent_commits_list_unlimited(r, head, main, limit) ==
    IF head = main
    THEN BreadthFirst(r, <<head>>, {head}, <<>>, Cardinality(DOMAIN r.parents))
    ELSE ByCommitTimeCutoff(r, main,
                            IF r.time[head] >= r.time[main] THEN {head} ELSE {},
                            {head}, <<>>, Cardinality(DOMAIN r.parents))

\* parent_commits_list: at most `limit` commits
parent_commits_list(r, head, main, limit) ==
    IF head = main
    THEN BreadthFirst(r, <<head>>, {head}, <<>>, limit)
    ELSE ByCommitTimeCutoff(r, main,
                            IF r.time[head] >= r.time[main] THEN {head} ELSE {},
                            {head}, <<>>, limit)

----------------------------------------------------------------------------
(* Key resolution                                                          *)

\* KeyPair with the bare key pushed before the suffix-qualified one
KeyPair_bare_first(prefix, ident, suffix) ==
    <<format_cache_key_str(prefix, ident, None)>>
    \o (IF IsSome(suffix) THEN <<format_cache_key_str(prefix, ident, suffix)>>
        ELSE <<>>)

\* the keys of one identifier: suffix-qualified (if any), then bare
KeyPair(prefix, ident, suffix) ==
    (IF IsSome(suffix) THEN <<format_cache_key_str(prefix, ident, suffix)>>
     ELSE <<>>)
    \o <<format_cache_key_str(prefix, ident, None)>>

\* WalkKeys with the keys collected farthest commit first
RECURSIVE WalkKeys_reversed(_, _, _, _)
WalkKeys_reversed(prefix, suffix, commits, main) ==
    IF commits = <<>> THEN <<>>
    ELSE WalkKeys_reversed(prefix, suffix, Tail(commits), main)
         \o (IF Head(commits) = main THEN <<>>
             ELSE (IF IsSome(suffix)
                   THEN <<format_cache_key(prefix, Head(commits), suffix)>>
                   ELSE <<>>)
                  \o <<format_cache_key(prefix, Head(commits), None)>>)

\* WalkKeys without the `continue` on the trunk commit
RECURSIVE WalkKeys_no_skip(_, _, _, _)
WalkKeys_no_skip(prefix, suffix, commits, main) ==
    IF commits = <<>> THEN <<>>
    ELSE (IF IsSome(suffix)
          THEN <<format_cache_key(prefix, Head(commits), suffix)>>
          ELSE <<>>)
         \o <<format_cache_key(prefix, Head(commits), None)>>
         \o WalkKeys_no_skip(prefix, suffix, Tail(commits), main)

RECURSIVE WalkKeys(_, _, _, _)
WalkKeys(prefix, suffix, commits, main) ==
    IF commits = <<>> THEN <<>>
    ELSE (IF Head(commits) = main THEN <<>>
          ELSE KeyPair(prefix, to_string(Head(commits)), suffix))
         \o WalkKeys(prefix, suffix, Tail(commits), main)

\* FallbackKeys without the suffix-qualified variant
FallbackKeys_bare_only(prefix, suffix, fallback_key) ==
    IF IsSome(fallback_key)
    THEN <<format_cache_key_str(prefix, Unwrap(fallback_key), None)>>
    ELSE <<>>

\* the keys of the fallback literal, if one was given
FallbackKeys(prefix, suffix, fallback_key) ==
    IF IsSome(fallback_key)
    THEN KeyPair(prefix, Unwrap(fallback_key), suffix)
    ELSE <<>>

possible_restore_keys(r, prefix, suffix, fallback_key) ==
    IF ~IsSome(r) THEN Err("RepositoryNotFound")
    ELSE LET mc == main_commit(Unwrap(r))
         IN  IF ~mc.ok THEN mc
             ELSE LET g == Unwrap(r)
                      main == mc.val
                      walk == parent_commits_list(g, g.head, main, WalkLimit)
                  IN  Ok( WalkKeys(prefix, suffix, walk, main)
                          \o FallbackKeys(prefix, suffix, fallback_key)
                          \o KeyPair(prefix, to_string(main), suffix) )

\* FirstNot without the comparison with the trunk commit
FirstNot_first(ps, main, dflt) ==
    IF ps = <<>> THEN dflt ELSE Head(ps)

\* the first parent that is not the trunk commit, else the head itself
RECURSIVE FirstNot(_, _, _)
FirstNot(ps, main, dflt) ==
    IF ps = <<>> THEN dflt
    ELSE IF Head(ps) /= main THEN Head(ps)
    ELSE FirstNot(Tail(ps), main, dflt)

current_key(r, env, prefix, suffix) ==
    IF ~IsSome(r) THEN Err("RepositoryNotFound")
    ELSE LET g == Unwrap(r)
             mc == main_commit(g)
         IN  IF ~mc.ok THEN mc
             ELSE LET parents == g.parents[g.head]
                      head_id ==
                          IF in_merge_request_ci(env) /\ Len(parents) > 1
                          THEN FirstNot(parents, mc.val, g.head)
                          ELSE g.head
                  IN  Ok(format_cache_key(prefix, head_id, suffix))

----------------------------------------------------------------------------
(* The folder backend                                                      *)

\* the lower-case hex SHA-256 of the key: injective on the keys in use
hash_file_name(k) == <<"sha256", k>>

\* hash_from_path: the alias of a path inside an archive
hash_from_path(path) == <<"sha256", path>>

\* path.exists(): true from the moment the file is created
exists(st, k) == hash_file_name(k) \in DOMAIN st

NoHandle == [name |-> None, lock |-> "none", pos |-> 0]

Holds(h, q, name) == h[q].name = Some(name) /\ h[q].lock /= "none"

\* lock_shared taking the lock as lock() does
lock_shared_as_exclusive(h, p, name) ==
    \A q \in DOMAIN h :
        q /= p => ~(h[q].name = Some(name) /\ h[q].lock /= "none")

\* flock(LOCK_SH) is granted unless another open file holds LOCK_EX
lock_shared_granted(h, p, name) ==
    \A q \in DOMAIN h :
        q /= p => ~(h[q].name = Some(name) /\ h[q].lock = "ex")

\* lock() replaced by a try_lock() whose answer is dropped
lock_granted_unchecked(h, p, name) == h[p].name = Some(name)

\* flock(LOCK_EX) is granted unless another open file holds any lock
lock_granted(h, p, name) ==
    \A q \in DOMAIN h : q /= p => ~Holds(h, q, name)

\* OpenOptions write(true).create(true).truncate(false)
open_create(st, name) ==
    IF name \in DOMAIN st THEN st ELSE (name :> <<>>) @@ st

\* the writer leaving the length of the file as it is
set_len_0_skipped(st, name) == [st EXCEPT ![name] = @]

\* file.set_len(0)
set_len_0(st, name) == [st EXCEPT ![name] = <<>>]

\* a write of one block at the file position pos (1-based block index)
write_at(st, name, pos, block) ==
    [st EXCEPT ![name] =
        IF pos <= Len(@) THEN [@ EXCEPT ![pos] = block]
        ELSE Append(@, block)]

\* consecutive writes of the blocks, the first at pos
RECURSIVE write_all(_, _, _, _)
write_all(st, name, pos, blocks) ==
    IF blocks = <<>> THEN st
    ELSE write_all(write_at(st, name, pos, Head(blocks)), name, pos + 1,
                   Tail(blocks))

----------------------------------------------------------------------------
(* The working tree and the archive                                        *)

\* a path is the sequence of its components, relative to the working
\* directory; the working tree maps the paths that exist to their nodes
Dir == [kind |-> "dir", body |-> ""]
File(body) == [kind |-> "file", body |-> body]

IsPrefix(a, b) == Len(a) <= Len(b) /\ SubSeq(b, 1, Len(a)) = a

\* the tree at and beneath a path: relative path -> node
Beneath(dsk, path) ==
    LET under == { q \in DOMAIN dsk : IsPrefix(path, q) }
        rels == { SubSeq(q, Len(path) + 1, Len(q)) : q \in under }
    IN  [rel \in rels |-> dsk[path \o rel]]

\* one entry of an archive: the writer, the alias (first component of the
\* entry's name), the rest of the name and the node stored
Block(w, alias, rel, node) ==
    [w |-> w, alias |-> alias, rel |-> rel, node |-> node]

\* the end-of-archive marker tar and gzip write when the archive is finished
\* or dropped
EofAlias == <<"eof">>
Eof(w) == Block(w, EofAlias, <<>>, [kind |-> "eof", body |-> ""])

IsArchive(content) ==
    /\ content /= <<>>
    /\ content[Len(content)].alias = EofAlias
    /\ \A i \in 1..(Len(content) - 1) : content[i].alias /= EofAlias

\* the order in which a directory is walked: a directory before what it
\* holds
RECURSIVE WalkOrder(_)
WalkOrder(rels) ==
    IF rels = {} THEN <<>>
    ELSE LET r == CHOOSE x \in rels : \A y \in rels : Len(x) <= Len(y)
         IN  <<r>> \o WalkOrder(rels \ {r})

\* main.rs 105-113: append_dir_all(hash, file) for a directory,
\* append_path_with_name(file, hash) for anything else
append(w, file, dsk) ==
    LET hash == hash_from_path(file)
    IN  IF dsk[file].kind = "dir"
        THEN LET tree == Beneath(dsk, file)
                 order == WalkOrder(DOMAIN tree)
             IN  [i \in 1..Len(order) |->
                     Block(w, hash, order[i], tree[order[i]])]
        ELSE << Block(w, hash, <<>>, dsk[file]) >>

\* main.rs 175-176: PathBuf::from(path) followed by push(without_hash).
\* PathBuf::push puts a separator before what it adds, also when it adds
\* the empty path: the result then ends with a separator.
output_path(path, without_hash) ==
    [path |-> path \o without_hash, sep |-> without_hash = <<>>]

ParentIsDir(dsk, path) ==
    \/ Len(path) = 1
    \/ LET parent == SubSeq(path, 1, Len(path) - 1)
       IN  parent \in DOMAIN dsk /\ dsk[parent].kind = "dir"

\* main.rs 183: entry.unpack(output_path).  A directory entry is created
\* with create_dir, an existing directory being accepted; a file entry is
\* opened with create_new (an existing file is unlinked first), which the
\* system refuses for a name that ends with a separator.
unpack(dsk, dst, node) ==
    LET no == [ok |-> FALSE, dsk |-> dsk]
        yes == [ok |-> TRUE, dsk |-> (dst.path :> node) @@ dsk]
    IN  IF node.kind = "dir"
        THEN IF dst.path \in DOMAIN dsk
             THEN [ok |-> dsk[dst.path].kind = "dir", dsk |-> dsk]
             ELSE IF ParentIsDir(dsk, dst.path) THEN yes ELSE no
        ELSE IF dst.sep THEN no
             ELSE IF ~ParentIsDir(dsk, dst.path) THEN no
             ELSE IF dst.path \in DOMAIN dsk /\ dsk[dst.path].kind = "dir"
                  THEN no
             ELSE yes

----------------------------------------------------------------------------
(* Invocations                                                             *)

Procs == 1..NumProcs

Prefix == <<"p">>
Suffix == <<"s">>
Literal == <<"k">>

PushCmd(files, suffix, fixed_key) ==
    [cmd |-> "push", files |-> files, prefix |-> Prefix, suffix |-> suffix,
     fixed_key |-> fixed_key, fallback_key |-> None]

PullCmd(files, suffix, fallback_key) ==
    [cmd |-> "pull", files |-> files, prefix |-> Prefix, suffix |-> suffix,
     fixed_key |-> None, fallback_key |-> fallback_key]

\* the command lines of the storage model, in a fixed order
\* the paths of the command lines: a directory, a path that does not
\* exist, a second directory
PathA == <<"a">>
PathB == <<"b">>
PathC == <<"c">>

StoreCommands ==
    << PushCmd(<<PathA, PathC>>, None, None),
       PushCmd(<<PathA, PathB>>, None, None),
       PushCmd(<<PathA>>, None, Some(Literal)),
       PullCmd(<<PathA>>, None, None),
       PullCmd(<<PathA, PathB>>, None, Some(Literal)),
       PullCmd(<<PathA>>, Some(Suffix), None) >>

\* the working tree an earlier push (writer 0) archived
OldTree ==
    (PathA :> Dir) @@ (PathA \o <<"x">> :> File("A1")) @@ (PathC :> Dir)

\* the object that push left in the store
OldObject ==
    append(0, PathA, OldTree) \o append(0, PathC, OldTree) \o << Eof(0) >>

\* the keys earlier pushes may have stored
OldKeys ==
    { format_cache_key(Prefix, 1, None),
      format_cache_key(Prefix, 2, None),
      format_cache_key_str(Prefix, Literal, None) }

StoreOf(ks) ==
    [n \in {hash_file_name(k) : k \in ks} |-> OldObject]

InitLocals ==
    /\ pc = [p \in Procs |-> "start"]
    /\ key = [p \in Procs |-> None]
    /\ keys = [p \in Procs |-> <<>>]
    /\ idx = [p \in Procs |-> 0]
    /\ probes = [p \in Procs |-> <<>>]
    /\ handle = [p \in Procs |-> NoHandle]
    /\ opened = [p \in Procs |-> <<>>]
    /\ data = [p \in Procs |-> <<>>]
    /\ entries = [p \in Procs |-> <<>>]
    /\ exit = [p \in Procs |-> None]
    /\ acquired = <<>>
    /\ packed = <<>>

\* the working tree holds the directory a with one file and the empty
\* directory c, and not b
InitDisk ==
    (PathA :> Dir) @@ (PathA \o <<"x">> :> File("A0")) @@ (PathC :> Dir)

Init ==
    /\ repo \in {Some(r) : r \in StoreRepos}
    /\ githubRef = None
    /\ \E c \in [Procs -> DOMAIN StoreCommands] :
        /\ \A p, q \in Procs : p <= q => c[p] <= c[q]
        /\ args = [p \in Procs |-> StoreCommands[c[p]]]
    /\ InitLocals
    /\ \E ks \in SUBSET OldKeys :
        /\ store = StoreOf(ks)
        /\ closed = [n \in DOMAIN store |-> {OldObject}]
    /\ disk = InitDisk

Fail(p, err) ==
    /\ exit' = [exit EXCEPT ![p] = Some([code |-> 1, err |-> err])]
    /\ pc' = [pc EXCEPT ![p] = "done"]

Succeed(p) ==
    /\ exit' = [exit EXCEPT ![p] = Some([code |-> 0, err |-> "none"])]
    /\ pc' = [pc EXCEPT ![p] = "done"]

\* the contents writers have left in a file, with one more
Closing(cl, name, content) ==
    IF name \in DOMAIN cl THEN [cl EXCEPT ![name] = @ \cup {content}]
    ELSE (name :> {content}) @@ cl

(* push ------------------------------------------------------------------ *)

\* main.rs 93-97: the key of push
push_key(r, env, a) ==
    IF IsSome(a.fixed_key)
    THEN Ok(format_cache_key_str(a.prefix, Unwrap(a.fixed_key), a.suffix))
    ELSE current_key(r, env, a.prefix, a.suffix)

PushResolve(p) ==
    /\ pc[p] = "start"
    /\ args[p].cmd = "push"
    /\ LET res == push_key(repo, githubRef, args[p])
       IN  IF res.ok
           THEN /\ key' = [key EXCEPT ![p] = Some(res.val)]
                /\ pc' = [pc EXCEPT ![p] = "w_open"]
                /\ UNCHANGED exit
           ELSE /\ Fail(p, res.err)
                /\ UNCHANGED key
    /\ UNCHANGED <<repo, githubRef, args, acquired, packed,
                   opened, keys, idx, probes, handle, data,
                   entries, store, closed, disk>>

\* folder_backend.rs 40-44: open the file, creating it if absent
WriterOpen(p) ==
    /\ pc[p] = "w_open"
    /\ LET name == hash_file_name(Unwrap(key[p]))
       IN  /\ store' = open_create(store, name)
           /\ handle' = [handle EXCEPT
                            ![p] = [name |-> Some(name), lock |-> "none",
                                    pos |-> 1]]
           /\ opened' = [opened EXCEPT ![p] = Append(@, name)]
    /\ pc' = [pc EXCEPT ![p] = "w_lock"]
    /\ UNCHANGED <<repo, githubRef, args, acquired, packed,
                   key, keys, idx, probes, data,
                   entries, exit, closed, disk>>

\* folder_backend.rs 46: file.lock() blocks until the lock is granted
WriterLock(p) ==
    /\ pc[p] = "w_lock"
    /\ lock_granted(handle, p, Unwrap(handle[p].name))
    /\ handle' = [handle EXCEPT ![p].lock = "ex"]
    /\ acquired' = Append(acquired, [by |-> p, name |-> Unwrap(handle[p].name)])
    /\ pc' = [pc EXCEPT ![p] = "w_trunc"]
    /\ UNCHANGED <<repo, githubRef, args, packed,
                   opened, key, keys, idx, probes, data,
                   entries, exit, store, closed, disk>>

\* folder_backend.rs 48: file.set_len(0)
WriterTruncate(p) ==
    /\ pc[p] = "w_trunc"
    /\ store' = set_len_0(store, Unwrap(handle[p].name))
    /\ idx' = [idx EXCEPT ![p] = 1]
    /\ pc' = [pc EXCEPT ![p] = "w_files"]
    /\ UNCHANGED <<repo, githubRef, args, acquired, packed,
                   opened, key, keys, probes, handle, data,
                   entries, exit, closed, disk>>

\* the file kept open, and with it the lock, after the archive has ended
DropWriter_leaked(p) ==
    LET name == Unwrap(handle[p].name)
        st == write_at(store, name, handle[p].pos, Eof(p))
    IN  /\ store' = st
        /\ closed' = Closing(closed, name, st[name])
        /\ handle' = [handle EXCEPT ![p].pos = @ + 1]

\* dropping the archive and the file: the end of the archive is written,
\* the file is closed and its lock released
DropWriter(p) ==
    LET name == Unwrap(handle[p].name)
        st == write_at(store, name, handle[p].pos, Eof(p))
    IN  /\ store' = st
        /\ closed' = Closing(closed, name, st[name])
        /\ handle' = [handle EXCEPT ![p] = NoHandle]

\* main.rs 104-114: one file of args.files
PushFile(p) ==
    /\ pc[p] = "w_files"
    /\ idx[p] <= Len(args[p].files)
    /\ LET file == args[p].files[idx[p]]
           name == Unwrap(handle[p].name)
       IN  IF file \in DOMAIN disk
           THEN LET blocks == append(p, file, disk)
                IN  /\ store' = write_all(store, name, handle[p].pos, blocks)
                    /\ handle' = [handle EXCEPT ![p].pos = @ + Len(blocks)]
                    /\ packed' = (file :> Beneath(disk, file)) @@ packed
                    /\ idx' = [idx EXCEPT ![p] = @ + 1]
                    /\ UNCHANGED <<pc, exit, closed>>
           ELSE /\ DropWriter(p)
                /\ Fail(p, "Io")
                /\ UNCHANGED <<idx, packed>>
    /\ UNCHANGED <<repo, githubRef, args, acquired,
                   opened, key, keys, probes, data, entries,
                   disk>>

\* main.rs 116-119: archive.finish(), then the writer is dropped
PushFinish(p) ==
    /\ pc[p] = "w_files"
    /\ idx[p] > Len(args[p].files)
    /\ DropWriter(p)
    /\ Succeed(p)
    /\ UNCHANGED <<repo, githubRef, args, acquired, packed,
                   opened, key, keys, idx, probes, data,
                   entries, disk>>

(* pull ------------------------------------------------------------------ *)

\* main.rs 130-131
PullResolve(p) ==
    /\ pc[p] = "start"
    /\ args[p].cmd = "pull"
    /\ LET res == possible_restore_keys(repo, args[p].prefix, args[p].suffix,
                                        args[p].fallback_key)
       IN  IF res.ok
           THEN /\ keys' = [keys EXCEPT ![p] = res.val]
                /\ idx' = [idx EXCEPT ![p] = 1]
                /\ pc' = [pc EXCEPT ![p] = "probe"]
                /\ UNCHANGED exit
           ELSE /\ Fail(p, res.err)
                /\ UNCHANGED <<keys, idx>>
    /\ UNCHANGED <<repo, githubRef, args, acquired, packed,
                   opened, key, probes, handle, data, entries,
                   store, closed, disk>>

\* after_probe without the `break`
after_probe_no_break(found, i, n) ==
    IF i < n THEN "next"
    ELSE IF found THEN "select"
    ELSE "bail"

\* after_probe with the loop ending one candidate early
after_probe_skip_last(found, i, n) ==
    IF found THEN "select"
    ELSE IF i + 1 < n THEN "next"
    ELSE "bail"

\* main.rs 133-146: what follows one exists() call on possible_keys[i]:
\* the key is selected, or the next key is probed, or pull bails
after_probe(found, i, n) ==
    IF found THEN "select"
    ELSE IF i < n THEN "next"
    ELSE "bail"

PullProbe(p) ==
    /\ pc[p] = "probe"
    /\ idx[p] <= Len(keys[p])
    /\ LET k == keys[p][idx[p]]
           found == exists(store, k)
           step == after_probe(found, idx[p], Len(keys[p]))
       IN  /\ probes' = [probes EXCEPT
                            ![p] = Append(@, [key |-> k, found |-> found])]
           /\ IF found
              THEN key' = [key EXCEPT ![p] = Some(k)]
              ELSE UNCHANGED key
           /\ CASE step = "select" ->
                    /\ pc' = [pc EXCEPT ![p] = "r_open"]
                    /\ UNCHANGED <<idx, exit>>
                [] step = "next" ->
                    /\ idx' = [idx EXCEPT ![p] = @ + 1]
                    /\ UNCHANGED <<pc, exit>>
                [] step = "bail" ->
                    /\ Fail(p, "NoCacheFound")
                    /\ UNCHANGED idx
    /\ UNCHANGED <<repo, githubRef, args, acquired, packed,
                   opened, keys, handle, data, entries, store,
                   closed, disk>>

\* main.rs 148-163 and folder_backend.rs 27: file_etries is built and the
\* file is opened for reading
ReaderOpen(p) ==
    /\ pc[p] = "r_open"
    /\ LET name == hash_file_name(Unwrap(key[p]))
       IN  IF name \in DOMAIN store
           THEN /\ entries' = [entries EXCEPT
                                 ![p] = [f \in Range(args[p].files) |-> FALSE]]
                /\ handle' = [handle EXCEPT
                                 ![p] = [name |-> Some(name), lock |-> "none",
                                         pos |-> 1]]
                /\ opened' = [opened EXCEPT ![p] = Append(@, name)]
                /\ pc' = [pc EXCEPT ![p] = "r_lock"]
                /\ UNCHANGED exit
           ELSE /\ entries' = [entries EXCEPT
                                 ![p] = [f \in Range(args[p].files) |-> FALSE]]
                /\ Fail(p, "Io")
                /\ UNCHANGED <<handle, opened>>
    /\ UNCHANGED <<repo, githubRef, args, acquired, packed,
                   key, keys, idx, probes, data, store,
                   closed, disk>>

\* folder_backend.rs 28: file.lock_shared() blocks until the lock is granted
ReaderLock(p) ==
    /\ pc[p] = "r_lock"
    /\ lock_shared_granted(handle, p, Unwrap(handle[p].name))
    /\ handle' = [handle EXCEPT ![p].lock = "sh"]
    /\ pc' = [pc EXCEPT ![p] = "r_read"]
    /\ UNCHANGED <<repo, githubRef, args, acquired, packed,
                   opened, key, keys, idx, probes, data,
                   entries, exit, store, closed, disk>>

\* main.rs 164-167: the stream is read
PullRead(p) ==
    /\ pc[p] = "r_read"
    /\ data' = [data EXCEPT ![p] = store[Unwrap(handle[p].name)]]
    /\ pc' = [pc EXCEPT ![p] = "r_unpack"]
    /\ UNCHANGED <<repo, githubRef, args, acquired, packed,
                   opened, key, keys, idx, probes, handle,
                   entries, exit, store, closed, disk>>

\* main.rs 167-190: the entries up to the end of the archive are visited in
\* order; one whose alias was requested is unpacked beneath the requested
\* path and marks the path extracted, an error of unpack ends the loop
RECURSIVE Unpacked(_, _, _)
Unpacked(content, files, st) ==
    IF content = <<>> \/ ~st.ok THEN st
    ELSE LET b == Head(content)
             hit == { f \in files : hash_from_path(f) = b.alias }
         IN  IF b.alias = EofAlias THEN st
             ELSE IF hit = {} THEN Unpacked(Tail(content), files, st)
             ELSE LET f == CHOOSE x \in hit : TRUE
                      r == unpack(st.dsk, output_path(f, b.rel), b.node)
                  IN  Unpacked(Tail(content), files,
                               [ok |-> r.ok, dsk |-> r.dsk,
                                done |-> IF r.ok THEN st.done \cup {f}
                                         ELSE st.done])

\* main.rs 167-199: the entries are unpacked, the reader is dropped.  A
\* stream that is no finished archive is either rejected by the decoder or
\* read as far as it goes.
PullUnpack(p) ==
    /\ pc[p] = "r_unpack"
    /\ LET files == Range(args[p].files)
           res == Unpacked(data[p], files,
                           [ok |-> TRUE, dsk |-> disk, done |-> {}])
       IN  /\ disk' = res.dsk
           /\ entries' = [entries EXCEPT
                            ![p] = [f \in files |-> f \in res.done]]
           /\ IF res.ok
              THEN \/ Succeed(p)
                   \/ /\ ~IsArchive(data[p])
                      /\ Fail(p, "ArchiveRead")
              ELSE Fail(p, "Unpack")
    /\ handle' = [handle EXCEPT ![p] = NoHandle]
    /\ UNCHANGED <<repo, githubRef, args, acquired, packed,
                   opened, key, keys, idx, probes, data, store, closed>>

Step(p) ==
    \/ PushResolve(p)
    \/ WriterOpen(p)
    \/ WriterLock(p)
    \/ WriterTruncate(p)
    \/ PushFile(p)
    \/ PushFinish(p)
    \/ PullResolve(p)
    \/ PullProbe(p)
    \/ ReaderOpen(p)
    \/ ReaderLock(p)
    \/ PullRead(p)
    \/ PullUnpack(p)

Next == \E p \in Procs : Step(p)

Spec == Init /\ [][Next]_vars

----------------------------------------------------------------------------
(* Key resolution on its own: one invocation resolves its key or its       *)
(* candidate list over every generated repository and command line         *)

KeyRepos ==
    {None} \cup {Some(r) : r \in LongRepos \cup ShortRepos \cup TiedRepos}

GithubRefs ==
    { None,
      Some(<<"refs", "heads", "main">>),
      Some(<<"refs", "pull", "7", "merge">>) }

Suffixes == {None, Some(Suffix)}

\* caller-supplied literals: a plain one, one that reads like commit 1, and
\* one that reads like commit 1 followed by "-" and the suffix
Literals ==
    { Literal, to_string(1), to_string(1) \o <<"-">> \o Suffix }

KeyCommands ==
    { PushCmd(<<PathA>>, s, f) :
        s \in Suffixes, f \in {None, Some(Literal)} }
    \cup
    { PullCmd(<<PathA>>, s, f) :
        s \in Suffixes, f \in {None} \cup {Some(l) : l \in Literals} }

InitKeys ==
    /\ repo \in KeyRepos
    /\ githubRef \in GithubRefs
    /\ \E c \in KeyCommands :
        args = [p \in Procs |-> IF p = 1 THEN c ELSE StoreCommands[1]]
    /\ InitLocals
    /\ store = StoreOf({})
    /\ closed = [n \in DOMAIN store |-> {OldObject}]
    /\ disk = InitDisk

NextKeys == PushResolve(1) \/ PullResolve(1)

SpecKeys == InitKeys /\ [][NextKeys]_vars

----------------------------------------------------------------------------
(* Vocabulary of the properties                                            *)

\* the trunk commit of the repository
Trunk == main_commit(Unwrap(repo)).val

\* invocation p is a pull that has computed its candidate list
PullResolved(p) == args[p].cmd = "pull" /\ keys[p] /= <<>>

\* the commits the ancestry walk of the repository yields, and those of
\* them that are not the trunk commit
Walked ==
    parent_commits_list(Unwrap(repo), Unwrap(repo).head, Trunk, WalkLimit)

NonTrunk(commits) == SelectSeq(commits, LAMBDA c : c /= Trunk)

\* the written-out form of a key
BareKey(prefix, ident) == prefix \o <<"-">> \o ident
SuffixKey(prefix, ident, suffix) ==
    prefix \o <<"-">> \o ident \o <<"-">> \o suffix

\* entries per identifier, and the number of fallback identifiers
PerIdent(p) == IF IsSome(args[p].suffix) THEN 2 ELSE 1
Fallbacks(p) == IF IsSome(args[p].fallback_key) THEN 1 ELSE 0

\* the part of the candidate list before the fallback and trunk sections
WalkSection(p) ==
    SubSeq(keys[p], 1, Len(keys[p]) - (Fallbacks(p) + 1) * PerIdent(p))

Occurrences(ks, k) == Cardinality({i \in DOMAIN ks : ks[i] = k})

----------------------------------------------------------------------------
(* C3: the candidate list ends with the trunk's bare key prefix-trunk, and *)
(* with a suffix the entry just before it is prefix-trunk-suffix.          *)
C3_EndsWithTrunk ==
    \A p \in Procs :
        PullResolved(p) =>
            LET ks == keys[p]
                n == Len(ks)
                a == args[p]
            IN  /\ ks[n] = BareKey(a.prefix, to_string(Trunk))
                /\ IsSome(a.suffix) =>
                    /\ n >= 2
                    /\ ks[n - 1] = SuffixKey(a.prefix, to_string(Trunk),
                                             Unwrap(a.suffix))

\* a list with walked commits, a fallback and a suffix
C3_Witness ==
    \E p \in Procs :
        /\ PullResolved(p)
        /\ IsSome(args[p].suffix)
        /\ IsSome(args[p].fallback_key)
        /\ Len(NonTrunk(Walked)) >= 2

Contributors(p) ==
    { c \in DOMAIN Unwrap(repo).parents :
        /\ c /= Trunk
        /\ BareKey(args[p].prefix, to_string(c)) \in Range(WalkSection(p)) }

C5_AtMostTen ==
    \A p \in Procs :
        PullResolved(p) => Cardinality(Contributors(p)) <= 10

\* a history with more than 10 non-trunk ancestors of HEAD, cut to 10
C5_Witness ==
    \E p \in Procs :
        /\ PullResolved(p)
        /\ Cardinality(Contributors(p)) = 10
        /\ Unwrap(repo).head /= Trunk
        /\ Cardinality(DOMAIN Unwrap(repo).parents) >= 12

(* C6: the list has w + f + 1 entries without a suffix and 2*(w + f + 1)   *)
(* with one (so an even number), w being the number of walked non-trunk    *)
(* commits and f being 1 with a fallback key and 0 without.                *)
C6_Length ==
    \A p \in Procs :
        PullResolved(p) =>
            LET w == Len(NonTrunk(Walked))
                f == IF IsSome(args[p].fallback_key) THEN 1 ELSE 0
            IN  IF IsSome(args[p].suffix)
                THEN /\ Len(keys[p]) = 2 * (w + f + 1)
                     /\ Len(keys[p]) % 2 = 0
                ELSE Len(keys[p]) = w + f + 1

\* a suffix, a fallback and walked commits: 2 * (w + 1 + 1) entries
C6_Witness ==
    \E p \in Procs :
        /\ PullResolved(p)
        /\ IsSome(args[p].suffix)
        /\ IsSome(args[p].fallback_key)
        /\ Len(NonTrunk(Walked)) = 2
        /\ Len(keys[p]) = 8

(* C7 as stated: the walk contributes no trunk entry, so, given a fallback *)
(* literal different from the trunk identifier, each trunk key variant     *)
(* occurs exactly once in the list, in the final trunk section; and a      *)
(* repository with only the trunk commit and no fallback gives the trunk   *)
(* entries alone.                                                          *)
TrunkVariants(p) ==
    {BareKey(args[p].prefix, to_string(Trunk))}
    \cup (IF IsSome(args[p].suffix)
          THEN {SuffixKey(args[p].prefix, to_string(Trunk),
                          Unwrap(args[p].suffix))}
          ELSE {})

TrunkSection(p) ==
    SubSeq(keys[p], Len(keys[p]) - PerIdent(p) + 1, Len(keys[p]))

NoTrunkFromWalk(p) == Range(WalkSection(p)) \cap TrunkVariants(p) = {}

TrunkOnceAtEnd(p) ==
    \A k \in TrunkVariants(p) :
        /\ Occurrences(keys[p], k) = 1
        /\ k \in Range(TrunkSection(p))

OnlyTrunkAlone(p) ==
    (DOMAIN Unwrap(repo).parents = {Trunk} /\ ~IsSome(args[p].fallback_key))
        => keys[p] = TrunkSection(p)

C7_Original ==
    \A p \in Procs :
        PullResolved(p) =>
            /\ NoTrunkFromWalk(p)
            /\ (~IsSome(args[p].fallback_key)
                \/ Unwrap(args[p].fallback_key) /= to_string(Trunk))
                    => TrunkOnceAtEnd(p)
            /\ OnlyTrunkAlone(p)

(* C7 amended: the same, given a fallback literal that is neither the      *)
(* trunk identifier nor the trunk identifier followed by "-" and the       *)
(* suffix (with a suffix, the bare key of such a literal is the trunk's    *)
(* suffix-qualified key).                                                  *)
FallbackReadsAsTrunk(p) ==
    /\ IsSome(args[p].fallback_key)
    /\ \/ Unwrap(args[p].fallback_key) = to_string(Trunk)
       \/ /\ IsSome(args[p].suffix)
          /\ Unwrap(args[p].fallback_key)
                = to_string(Trunk) \o <<"-">> \o Unwrap(args[p].suffix)

C7_TrunkOnce ==
    \A p \in Procs :
        PullResolved(p) =>
            /\ NoTrunkFromWalk(p)
            /\ ~FallbackReadsAsTrunk(p) => TrunkOnceAtEnd(p)
            /\ OnlyTrunkAlone(p)

\* HEAD is the trunk commit and has ancestors: the walk meets the trunk
\* commit and skips it
C7_Witness ==
    \E p \in Procs :
        /\ PullResolved(p)
        /\ Unwrap(repo).head = Trunk
        /\ Trunk \in Range(Walked)
        /\ Len(NonTrunk(Walked)) >= 1
        /\ IsSome(args[p].fallback_key)
        /\ ~FallbackReadsAsTrunk(p)
        /\ TrunkOnceAtEnd(p)

(* C8: push without a fixed key uses, when GITHUB_REF marks a pull request *)
(* and HEAD has more than one parent, the first parent of HEAD that is not *)
(* the trunk commit; with at most one parent, with every parent equal to   *)
(* the trunk commit, or without the signal, it uses HEAD itself.           *)
PullRequestSignal == githubRef = Some(<<"refs", "pull", "7", "merge">>)

ExpectedIdentifier ==
    LET g == Unwrap(repo)
        ps == g.parents[g.head]
        other == {i \in DOMAIN ps : ps[i] /= Trunk}
    IN  IF PullRequestSignal /\ Len(ps) > 1 /\ other /= {}
        THEN ps[CHOOSE i \in other : \A j \in other : i <= j]
        ELSE g.head

C8_PushIdentifier ==
    \A p \in Procs :
        (args[p].cmd = "push" /\ ~IsSome(args[p].fixed_key) /\ IsSome(key[p]))
            => Unwrap(key[p]) =
                IF IsSome(args[p].suffix)
                THEN SuffixKey(args[p].prefix, to_string(ExpectedIdentifier),
                               Unwrap(args[p].suffix))
                ELSE BareKey(args[p].prefix, to_string(ExpectedIdentifier))

\* a pull-request build whose HEAD merges the trunk (first parent) with a
\* feature commit: the key is the feature commit's
C8_Witness ==
    \E p \in Procs :
        /\ args[p].cmd = "push" /\ ~IsSome(args[p].fixed_key) /\ IsSome(key[p])
        /\ PullRequestSignal
        /\ LET ps == Unwrap(repo).parents[Unwrap(repo).head]
           IN  /\ Len(ps) = 2
               /\ ps[1] = Trunk
               /\ ps[2] /= Trunk
               /\ Unwrap(key[p]) = BareKey(args[p].prefix, to_string(ps[2]))

----------------------------------------------------------------------------
(* Properties of the invocations sharing the storage directory             *)

IsPull(p) == args[p].cmd = "pull"
IsPush(p) == args[p].cmd = "push"

\* a push has the file open: from the open in writer() to the drop
WriterActive(name) == \E q \in Procs : IsPush(q) /\ handle[q].name = Some(name)

NoCacheFound == Some([code |-> 1, err |-> "NoCacheFound"])

(* C1: a reader that obtained its stream reads the complete content of one *)
(* finished write (what some writer left in the file when it closed it),   *)
(* never a truncated or half-written object, also when the writer is       *)
(* creating the object.                                                    *)
C1_ReadsFinishedWrite ==
    \A p \in Procs :
        (IsPull(p) /\ pc[p] = "r_unpack") =>
            LET name == Unwrap(handle[p].name)
            IN  /\ name \in DOMAIN closed
                /\ data[p] \in closed[name]

(* C2: pull probes the candidates in list order and selects the first one  *)
(* the backend reports to exist: the probes are a prefix of the list, all  *)
(* but the selecting probe answered no, nothing after the selected key is  *)
(* probed, and only the selected key is opened.                            *)
C2_FirstExisting ==
    \A p \in Procs :
        IsPull(p) =>
            LET n == Len(probes[p])
            IN  /\ n <= Len(keys[p])
                /\ \A i \in 1..n : probes[p][i].key = keys[p][i]
                /\ \A i \in 1..(n - 1) : ~probes[p][i].found
                /\ IsSome(key[p]) <=> (n >= 1 /\ probes[p][n].found)
                /\ IsSome(key[p]) => Unwrap(key[p]) = keys[p][n]
                /\ \A i \in DOMAIN opened[p] :
                    /\ IsSome(key[p])
                    /\ opened[p][i] = hash_file_name(Unwrap(key[p]))

\* a pull selected a candidate that is neither the first nor the last of
\* its list, while the last candidate exists too and was not probed
C2_Witness ==
    \E p \in Procs :
        /\ IsPull(p)
        /\ opened[p] /= <<>>
        /\ Len(probes[p]) >= 2
        /\ Len(probes[p]) < Len(keys[p])
        /\ exists(store, keys[p][Len(keys[p])])

(* C9: pull ends with the no-cache-found error and exit code 1 exactly     *)
(* when it has probed every candidate and none existed; it then has opened *)
(* no reader, read nothing and extracted no file.                          *)
ProbedAllInVain(p) ==
    /\ keys[p] /= <<>>
    /\ Len(probes[p]) = Len(keys[p])
    /\ \A i \in DOMAIN probes[p] : ~probes[p][i].found

C9_NoCacheFound ==
    \A p \in Procs :
        IsPull(p) =>
            /\ ProbedAllInVain(p) <=> exit[p] = NoCacheFound
            /\ ProbedAllInVain(p) =>
                /\ pc[p] = "done"
                /\ Unwrap(exit[p]).code /= 0
                /\ opened[p] = <<>>
                /\ handle[p] = NoHandle
                /\ data[p] = <<>>
                /\ entries[p] = <<>>

\* a pull with several candidates failed although the store is not empty
C9_Witness ==
    \E p \in Procs :
        /\ IsPull(p)
        /\ exit[p] = NoCacheFound
        /\ Len(keys[p]) >= 2
        /\ DOMAIN store /= {}

(* C10: readers of the same existing key do not block each other and read  *)
(* the same content: with no writer active on the key a reader waiting for *)
(* its shared lock can take it whoever else holds one, opening an existing *)
(* object never fails, and two readers holding the object read the same.   *)
C10_ReadersShare ==
    /\ \A p \in Procs :
        (IsPull(p) /\ pc[p] = "r_lock"
            /\ ~WriterActive(Unwrap(handle[p].name)))
                => ENABLED ReaderLock(p)
    /\ \A p \in Procs :
        (IsPull(p) /\ IsSome(exit[p])) => Unwrap(exit[p]).err /= "Io"
    /\ \A p, q \in Procs :
        (/\ IsPull(p) /\ IsPull(q)
         /\ pc[p] = "r_unpack" /\ pc[q] = "r_unpack"
         /\ handle[p].name = handle[q].name)
            => data[p] = data[q]

\* two readers hold the shared lock on the same object and have read it
C10_Witness ==
    \E p, q \in Procs :
        /\ p /= q
        /\ IsPull(p) /\ IsPull(q)
        /\ pc[p] = "r_unpack" /\ pc[q] = "r_unpack"
        /\ handle[p].name = handle[q].name
        /\ handle[p].lock = "sh" /\ handle[q].lock = "sh"
        /\ ~WriterActive(Unwrap(handle[p].name))
        /\ IsArchive(data[p])

----------------------------------------------------------------------------
(* A push and pulls of the same key over working trees with a regular file *)
(* and a nested directory                                                  *)

PathF == <<"f">>
PathD == <<"d">>

\* the working tree of the job that pushes: the file f, the directory d
\* holding the file d/x and the directory d/s with the file d/s/y
TripTree ==
    (PathF :> File("F0")) @@ (PathD :> Dir) @@
    (PathD \o <<"x">> :> File("X0")) @@ (PathD \o <<"s">> :> Dir) @@
    (PathD \o <<"s", "y">> :> File("Y0"))

\* the working trees of the job that pulls: a fresh one without the cached
\* paths, and one in which they are stale
FreshTrees ==
    { << >>,
      (PathF :> File("F9")) @@ (PathD :> Dir) @@
      (PathD \o <<"x">> :> File("X9")) }

TripPushes ==
    { PushCmd(fs, None, None) : fs \in {<<PathF>>, <<PathD>>, <<PathD, PathF>>} }

TripPulls ==
    { PullCmd(fs, None, None) :
        fs \in {<<PathF>>, <<PathD>>, <<PathD, PathF>>, <<PathD, PathB>>,
                <<PathF, PathB>>} }

InitTrip ==
    /\ repo = Some(MkRepo(1, 1, 1, "none", FALSE, Some(1), None))
    /\ githubRef = None
    /\ \E c \in TripPushes, d \in TripPulls :
        args = [p \in Procs |-> IF p = 1 THEN c ELSE d]
    /\ InitLocals
    /\ store = StoreOf({})
    /\ closed = [n \in DOMAIN store |-> {OldObject}]
    /\ disk = TripTree

\* the job that pulls runs in a working tree of its own: once the pushes
\* are over the working tree is replaced
Checkout ==
    /\ \A p \in Procs : args[p].cmd = "push" => pc[p] = "done"
    /\ \A p \in Procs : pc[p] /= "r_unpack"
    /\ disk = TripTree
    /\ disk' \in FreshTrees
    /\ UNCHANGED <<repo, githubRef, args, acquired, packed, pc, key, keys,
                   idx, probes, handle, opened, data, entries, exit, store,
                   closed>>

NextTrip == Next \/ Checkout

SpecTrip == InitTrip /\ [][NextTrip]_vars

----------------------------------------------------------------------------
(* Invocations that all work on the key of one commit, scheduled fairly    *)

FairCommands ==
    << PushCmd(<<PathA, PathC>>, None, None),
       PushCmd(<<PathA, PathB>>, None, None),
       PullCmd(<<PathA>>, None, None) >>

InitFair ==
    /\ repo = Some(MkRepo(2, 2, 0, "none", FALSE, Some(2), None))
    /\ githubRef = None
    /\ \E c \in [Procs -> DOMAIN FairCommands] :
        /\ \A p, q \in Procs : p <= q => c[p] <= c[q]
        /\ args = [p \in Procs |-> FairCommands[c[p]]]
    /\ InitLocals
    /\ \E ks \in SUBSET {format_cache_key(Prefix, 2, None)} :
        /\ store = StoreOf(ks)
        /\ closed = [n \in DOMAIN store |-> {OldObject}]
    /\ disk = InitDisk

\* every invocation is a process of its own: one that can take a step is
\* not held back for ever
Fairness == \A p \in Procs : WF_vars(Step(p))

SpecFair == InitFair /\ [][Next]_vars /\ Fairness

----------------------------------------------------------------------------
(* The storage model in working directories without a repository and in    *)
(* repositories with every choice of trunk references                      *)

RefRepos ==
    {None} \cup
    { Some(MkRepo(2, 2, 1, "none", FALSE,
                  RefChoice(2, i)[1], RefChoice(2, i)[2])) : i \in 1..5 }

InitRefs ==
    /\ repo \in RefRepos
    /\ githubRef = None
    /\ \E c \in [Procs -> DOMAIN StoreCommands] :
        /\ \A p, q \in Procs : p <= q => c[p] <= c[q]
        /\ args = [p \in Procs |-> StoreCommands[c[p]]]
    /\ InitLocals
    /\ \E ks \in SUBSET OldKeys :
        /\ store = StoreOf(ks)
        /\ closed = [n \in DOMAIN store |-> {OldObject}]
    /\ disk = InitDisk

SpecRefs == InitRefs /\ [][Next]_vars

----------------------------------------------------------------------------
(* C11: writers to one key are serialized by the exclusive lock            *)

\* the writers of the exclusive locks granted on a file, in order
RECURSIVE AcquirersOf(_, _)
AcquirersOf(acq, name) ==
    IF acq = <<>> THEN <<>>
    ELSE LET rest == AcquirersOf(Tail(acq), name)
         IN  IF Head(acq).name = name THEN <<Head(acq).by>> \o rest ELSE rest

LastAcquirer(name) ==
    LET w == AcquirersOf(acquired, name) IN w[Len(w)]

WritingExclusive(p, name) ==
    handle[p].name = Some(name) /\ handle[p].lock = "ex"

AllPushesDone == \A p \in Procs : IsPush(p) => pc[p] = "done"

\* C11: no two invocations hold the exclusive lock of one file together; a
\* writer waiting for the lock of a file another writer holds cannot go on;
\* an invocation that is about to truncate or write holds the exclusive
\* lock; and once every push has finished, a file writers locked holds an
\* archive left at a close whose every block is of the writer that was
\* granted the lock last.
C11_WritersSerialized ==
    /\ \A p, q \in Procs :
          \A name \in DOMAIN store :
              WritingExclusive(p, name) /\ WritingExclusive(q, name) => p = q
    /\ \A p \in Procs :
          pc[p] = "w_lock" /\
          (\E q \in Procs \ {p} :
               WritingExclusive(q, Unwrap(handle[p].name)))
          => ~ENABLED WriterLock(p)
    /\ \A p \in Procs :
          pc[p] \in {"w_trunc", "w_files"}
          => /\ IsSome(handle[p].name)
             /\ WritingExclusive(p, Unwrap(handle[p].name))
    /\ AllPushesDone =>
          \A name \in {acquired[i].name : i \in DOMAIN acquired} :
              /\ IsArchive(store[name])
              /\ store[name] \in closed[name]
              /\ \A i \in DOMAIN store[name] :
                    store[name][i].w = LastAcquirer(name)

\* two pushes have written the same file one after the other and are done,
\* the first having left more blocks than the second
C11_Witness ==
    /\ AllPushesDone
    /\ Len(acquired) = 2
    /\ acquired[1].name = acquired[2].name
    /\ acquired[1].by /= acquired[2].by
    /\ \E c \in closed[acquired[1].name] :
          /\ c[1].w = acquired[1].by
          /\ Len(c) > Len(store[acquired[1].name])

----------------------------------------------------------------------------
(* C12: a push that fails after its writer was opened is not rolled back   *)

FailedAfterOpen(p) ==
    /\ IsPush(p)
    /\ pc[p] = "done"
    /\ Unwrap(exit[p]).code /= 0
    /\ opened[p] /= <<>>

\* the paths of files an archive has an entry for
Archived(content, files) ==
    { f \in files :
        \E i \in DOMAIN content : content[i].alias = hash_from_path(f) }

\* the content a writer left when it closed the file
LeftBy(p, name) ==
    { c \in closed[name] : c /= <<>> /\ \E i \in DOMAIN c : c[i] = Eof(p) }

SelectedKeyOf(q, k) ==
    /\ probes[q] /= <<>>
    /\ probes[q][Len(probes[q])] = [key |-> k, found |-> TRUE]

\* C12: after a push has failed with its writer open, the key exists; what
\* the push left is a finished archive of its own blocks alone that lacks
\* an entry for one of the listed paths, nothing of the content stored
\* before being in it; the file holds just that until another writer is
\* granted the lock; and a pull whose probes end with that key found has
\* selected it and does not report that no cache was found.
C12_FailedPushStays ==
    \A p \in Procs :
        FailedAfterOpen(p) =>
            LET name == opened[p][1]
                files == Range(args[p].files)
            IN  /\ name = hash_file_name(Unwrap(key[p]))
                /\ exists(store, Unwrap(key[p]))
                /\ LeftBy(p, name) /= {}
                /\ \A c \in LeftBy(p, name) :
                      /\ IsArchive(c)
                      /\ \A i \in DOMAIN c : c[i].w = p
                      /\ Archived(c, files) /= files
                      /\ LastAcquirer(name) = p => store[name] = c
                /\ \A q \in Procs :
                      IsPull(q) /\ SelectedKeyOf(q, Unwrap(key[p]))
                      => /\ key[q] = key[p]
                         /\ pc[q] /= "probe"
                         /\ ~(pc[q] = "done" /\
                              Unwrap(exit[q]).err = "NoCacheFound")

\* a push failed on its second path over a longer object stored before,
\* and a pull has since selected the key and read what the push left
C12_Witness ==
    \E p, q \in Procs :
        /\ FailedAfterOpen(p)
        /\ OldObject \in closed[opened[p][1]]
        /\ IsPull(q)
        /\ pc[q] = "done"
        /\ key[q] = key[p]
        /\ data[q] \in LeftBy(p, opened[p][1])
        /\ Archived(data[q], Range(args[p].files)) = {PathA}

----------------------------------------------------------------------------
(* C13, C14: extraction                                                    *)

\* the step in which pull unpacks what it read
Unpacks(q) == pc[q] = "r_unpack" /\ pc'[q] = "done"

\* the nodes the entries of a requested path hold: path -> node
EntriesUnder(content, f) ==
    LET is == { i \in DOMAIN content :
                  content[i].alias = hash_from_path(f) }
    IN  [path \in {f \o content[i].rel : i \in is} |->
            LET i == CHOOSE j \in is : f \o content[j].rel = path
            IN  content[i].node]

Has(dsk, tree) ==
    \A path \in DOMAIN tree : path \in DOMAIN dsk /\ dsk[path] = tree[path]

\* C13: when pull unpacks a finished archive that lacks a requested alias,
\* pull ends with exit code 0, exactly the requested paths the archive has
\* an alias for are marked extracted (the others are the ones reported),
\* their entries are in the working tree afterwards, and no path outside
\* the requested ones is touched.
C13_MissingAlias ==
    [][\A q \in Procs :
          LET files == Range(args[q].files)
              present == Archived(data[q], files)
          IN  Unpacks(q) /\ IsArchive(data[q]) /\ present /= files
              => /\ Unwrap(exit'[q]).code = 0
                 /\ \A f \in files : entries'[q][f] <=> f \in present
                 /\ \A f \in present :
                       Has(disk', EntriesUnder(data[q], f))
                 /\ \A path \in DOMAIN disk \cup DOMAIN disk' :
                       (\A f \in files : ~IsPrefix(f, path))
                       => /\ path \in DOMAIN disk
                          /\ path \in DOMAIN disk'
                          /\ disk'[path] = disk[path]]_vars

\* the archive q has read is what a successful push of the same paths left
PulledFrom(q, p) ==
    /\ IsPush(p)
    /\ pc[p] = "done"
    /\ Unwrap(exit[p]).code = 0
    /\ Range(args[p].files) = Range(args[q].files)
    /\ IsSome(handle[q].name)
    /\ data[q] \in LeftBy(p, Unwrap(handle[q].name))

\* C14: when pull unpacks the archive a push of the same paths wrote, pull
\* succeeds and afterwards every path the push packed, with everything
\* beneath it, is in the working tree with the node and the content the
\* push read.
C14_RoundTrip ==
    [][\A q, p \in Procs :
          Unpacks(q) /\ PulledFrom(q, p)
          => /\ Unwrap(exit'[q]).code = 0
             /\ \A f \in Range(args[p].files) :
                   /\ f \in DOMAIN packed
                   /\ \A rel \in DOMAIN packed[f] :
                         /\ f \o rel \in DOMAIN disk'
                         /\ disk'[f \o rel] = packed[f][rel]]_vars

----------------------------------------------------------------------------
(* C15: the written-out form of a key                                      *)

\* k reads P, "-", I and, with a suffix S, "-", S
IsFormatted(k, P, I, S) ==
    LET n == Len(P) + 1 + Len(I)
    IN  /\ Len(k) = n + (IF IsSome(S) THEN 1 + Len(Unwrap(S)) ELSE 0)
        /\ SubSeq(k, 1, Len(P)) = P
        /\ k[Len(P) + 1] = "-"
        /\ SubSeq(k, Len(P) + 2, n) = I
        /\ IsSome(S) => /\ k[n + 1] = "-"
                        /\ SubSeq(k, n + 2, Len(k)) = Unwrap(S)

CommitIdents == { to_string(c) : c \in DOMAIN Unwrap(repo).parents }

\* C15: the key push resolves reads P-I without a suffix and P-I-S with
\* the suffix S, I being the fixed literal or else the hash of a commit;
\* every candidate of pull reads P-I or, with the suffix S, P-I-S, I being
\* the fallback literal or the hash of a commit.
C15_KeyFormat ==
    \A p \in Procs :
        /\ IsPush(p) /\ IsSome(key[p]) =>
              \E I \in (IF IsSome(args[p].fixed_key)
                        THEN {Unwrap(args[p].fixed_key)}
                        ELSE CommitIdents) :
                  IsFormatted(Unwrap(key[p]), args[p].prefix, I,
                              args[p].suffix)
        /\ PullResolved(p) =>
              \A i \in DOMAIN keys[p] :
                  \E I \in CommitIdents \cup
                           {Unwrap(f) : f \in {args[p].fallback_key} \ {None}},
                     S \in {None, args[p].suffix} :
                      IsFormatted(keys[p][i], args[p].prefix, I, S)

\* a pull with a suffix and a fallback literal has resolved: the literal's
\* key with the suffix and the bare key of HEAD's hash are candidates
C15_Witness ==
    \E p \in Procs :
        /\ PullResolved(p)
        /\ args[p].suffix = Some(Suffix)
        /\ args[p].fallback_key = Some(Literal)
        /\ Prefix \o <<"-">> \o Literal \o <<"-">> \o Suffix
               \in Range(keys[p])
        /\ Prefix \o <<"-">> \o to_string(Unwrap(repo).head)
               \in Range(keys[p])
        /\ Unwrap(repo).head /= Trunk

----------------------------------------------------------------------------
(* C16: where the commit-derived candidates come from                      *)

\* the commits reachable from the commits of a set, these included
RECURSIVE Reach(_, _)
Reach(r, cs) ==
    LET more == cs \cup UNION { Range(r.parents[c]) : c \in cs }
    IN  IF more = cs THEN cs ELSE Reach(r, more)

\* the commits whose key is in the section of the list the walk produced
WalkCommits(p) ==
    { c \in DOMAIN Unwrap(repo).parents :
        BareKey(args[p].prefix, to_string(c)) \in Range(WalkSection(p)) }

\* C16 as stated: with HEAD off the trunk commit, every commit with a
\* candidate from the walk is reachable from HEAD, is not the trunk commit
\* and is not reachable from the trunk commit; with HEAD on the trunk
\* commit they are ancestors of HEAD.
C16_Original ==
    \A p \in Procs :
        PullResolved(p) =>
            LET r == Unwrap(repo)
            IN  \A c \in WalkCommits(p) :
                    /\ c \in Reach(r, {r.head})
                    /\ r.head /= Trunk =>
                          c /= Trunk /\ c \notin Reach(r, {Trunk})

----------------------------------------------------------------------------
(* C17: termination                                                        *)

AllDone == \A p \in Procs : pc[p] = "done" /\ IsSome(exit[p])

Blocked(p) ==
    \/ pc[p] = "w_lock" /\ ~ENABLED WriterLock(p)
    \/ pc[p] = "r_lock" /\ ~ENABLED ReaderLock(p)

\* C17: an invocation opens at most one file and holds no lock but that
\* file's, and none once it has ended; as long as an invocation has not
\* ended some invocation can take a step; and under fair scheduling an
\* invocation that waits for a lock gets past the wait and every
\* invocation ends with an exit code.
C17_Terminates ==
    /\ [](\A p \in Procs :
            /\ Len(opened[p]) <= 1
            /\ handle[p].lock /= "none" =>
                  opened[p] /= <<>> /\ handle[p].name = Some(opened[p][1])
            /\ pc[p] = "done" => handle[p] = NoHandle)
    /\ [](~AllDone => ENABLED Next)
    /\ \A p \in Procs : Blocked(p) ~> ~Blocked(p)
    /\ <>[]AllDone

\* a writer waits for the lock of a file on which another invocation
\* holds a lock
C17_Witness ==
    \E p, q \in Procs :
        /\ p /= q
        /\ pc[p] = "w_lock"
        /\ Blocked(p)
        /\ Holds(handle, q, Unwrap(handle[p].name))

----------------------------------------------------------------------------
(* C18: a pull after a push at the same commit                             *)

\* p is a push without a fixed key that has succeeded
Pushed(p) ==
    /\ IsPush(p)
    /\ ~IsSome(args[p].fixed_key)
    /\ pc[p] = "done"
    /\ Unwrap(exit[p]).code = 0

\* q makes the first exists() call of its pull
FirstProbe(q) ==
    /\ IsPull(q)
    /\ pc[q] = "probe"
    /\ probes[q] = <<>>
    /\ probes'[q] /= <<>>

\* C18 as stated: a pull that starts probing after a push without a fixed
\* key has succeeded in the same repository with the same prefix and
\* suffix and no pull-request signal finds the key of that push with its
\* first probe and selects it.
C18_Original ==
    [][\A p, q \in Procs :
          /\ Pushed(p)
          /\ FirstProbe(q)
          /\ args[q].prefix = args[p].prefix
          /\ args[q].suffix = args[p].suffix
          /\ ~PullRequestSignal
          => /\ key'[q] = key[p]
             /\ pc'[q] = "r_open"]_vars

----------------------------------------------------------------------------
(* C19: the key of push among the candidates of pull                       *)

\* the key a push without a fixed key writes in the state's repository and
\* environment with the prefix and suffix of invocation p
PushKeyFor(p) ==
    IF IsSome(args[p].suffix)
    THEN SuffixKey(args[p].prefix, to_string(ExpectedIdentifier),
                   Unwrap(args[p].suffix))
    ELSE BareKey(args[p].prefix, to_string(ExpectedIdentifier))

\* C19 as stated: whenever pull has computed its candidates, the key push
\* would write with the same prefix and suffix in the same repository and
\* environment is one of them.
C19_Original ==
    \A p \in Procs :
        PullResolved(p) => PushKeyFor(p) \in Range(keys[p])

----------------------------------------------------------------------------
(* C20: a push whose key cannot be resolved                                *)

NoTrunkReference ==
    /\ IsSome(repo)
    /\ ~IsSome(Unwrap(repo).origin_main)
    /\ ~IsSome(Unwrap(repo).origin_master)

Unresolvable == ~IsSome(repo) \/ NoTrunkReference

\* origin/main if it exists, else origin/master
PreferredTrunk ==
    IF IsSome(Unwrap(repo).origin_main) THEN Unwrap(Unwrap(repo).origin_main)
    ELSE Unwrap(Unwrap(repo).origin_master)

\* no block of p is in a stored object or in what a writer left
NoTraceOf(p) ==
    \A name \in DOMAIN store :
        \A c \in {store[name]} \cup
                  (IF name \in DOMAIN closed THEN closed[name] ELSE {}) :
            \A i \in DOMAIN c : c[i].w /= p

\* C20: a push without a fixed key, once started where no repository or no
\* trunk reference is found, has ended with the resolution's error, has
\* no key, has opened no file, holds none, was granted no lock, and no
\* stored object has a block of it; the step in which it ends leaves the
\* storage directory as it is; and the trunk key that ends the candidates
\* of pull is that of origin/main if that reference exists and that of
\* origin/master only if it does not.
C20_AbortsBeforeWriter ==
    /\ [](\A p \in Procs :
            /\ (IsPush(p) /\ ~IsSome(args[p].fixed_key) /\ Unresolvable
                 /\ pc[p] /= "start")
               => /\ pc[p] = "done"
                  /\ Unwrap(exit[p]) =
                       [code |-> 1,
                        err |-> IF IsSome(repo) THEN "TrunkNotFound"
                                ELSE "RepositoryNotFound"]
                  /\ key[p] = None
                  /\ opened[p] = <<>>
                  /\ handle[p] = NoHandle
                  /\ \A i \in DOMAIN acquired : acquired[i].by /= p
                  /\ NoTraceOf(p)
            /\ (IsPush(p) /\ pc[p] = "done" /\ key[p] = None) => Unresolvable
            /\ PullResolved(p) =>
                  keys[p][Len(keys[p])] =
                      BareKey(args[p].prefix, to_string(PreferredTrunk)))
    /\ [][\A p \in Procs :
            (IsPush(p) /\ pc[p] = "start" /\ pc'[p] = "done")
            => store' = store /\ closed' = closed /\ handle' = handle]_vars

\* a push has failed for want of a trunk reference while a push with a
\* fixed key has stored its object
C20_Witness ==
    \E p, q \in Procs :
        /\ IsPush(p)
        /\ pc[p] = "done"
        /\ Unwrap(exit[p]).err = "TrunkNotFound"
        /\ IsPush(q)
        /\ pc[q] = "done"
        /\ Unwrap(exit[q]).code = 0
        /\ opened[q] /= <<>>

====
